---- MODULE Spec2Model ----
(***************************************************************************)
(* Connection lifecycle of the MCP gateway (src/src/gateway.ts): the       *)
(* `connected` cache, ensureConnection, the idle sweeper of scheduleGc and *)
(* the discover / dispatch / close request handler.                        *)
(*                                                                         *)
(* Time is the value of Date.now() in milliseconds.  Timers (setInterval   *)
(* of the sweeper, setTimeout of withTimeout) fire at their deadline: the  *)
(* clock does not advance past an armed deadline before its callback ran.  *)
(* Every `await` of the handler is a suspension point at which the other   *)
(* request handlers and the sweeper may run.                               *)
(***************************************************************************)
EXTENDS Integers, Sequences, FiniteSets, TLC

VARIABLES
    now,        \* Date.now()
    nextGc,     \* next firing time of the setInterval of scheduleGc
    connected,  \* the Map `connected`: a function whose domain is its keys
    chan,       \* the Client instances, by instance marker
    pc,         \* position of each request handler
    rq,         \* request.params of each request handler
    now0,       \* `now` read at the top of ensureConnection
    conn,       \* the Client the handler holds (connecting, or returned)
    made,       \* Clients created by the handler's ensureConnection call
    started,    \* time at which the handler sent callTool
    deadline,   \* firing time of the setTimeout armed by withTimeout
    resp        \* the response the handler returned

vars == <<now, nextGc, connected, chan, pc, rq, now0, conn, made,
          started, deadline, resp>>

----------------------------------------------------------------------------
(* Bounds of the model *)

MaxTicks == 5
MaxOverlapTicks == 1
MaxChannels == 2

(* Program constants *)

GcIntervalMs == 30000
DispatchTimeoutMs == 120000
DefaultIdleTtlMs == 300000
DefaultConnectTimeoutMs == 8000

(* The clock is observed at the firing times of the sweeper. *)
Quantum == GcIntervalMs
MaxTime == MaxTicks * Quantum

OverlapHorizon == MaxOverlapTicks * Quantum

Procs == {1, 2}
Channels == 1..MaxChannels
Tools == {"say"}

----------------------------------------------------------------------------
(* The registry: id -> recipe.  Optional fields are absent from the record. *)

REGISTRY ==
    << [id |-> "s", kind |-> "sse", url |-> "http://s",
        connectTimeoutMs |-> 8000, idleTtlMs |-> 30000],
       [id |-> "h", kind |-> "http", url |-> "http://h"],
       [id |-> "u", kind |-> "http"],
       [id |-> "w", kind |-> "ws", url |-> "ws://w"],
       [id |-> "m", kind |-> "stdio"] >>

RegistryIds == {REGISTRY[i].id : i \in DOMAIN REGISTRY}
ServerIds == RegistryIds \cup {"x"}

NotFound == [id |-> "", kind |-> "undefined"]

findCfg_fallback(serverId) ==
    IF \E i \in DOMAIN REGISTRY : REGISTRY[i].id = serverId
    THEN REGISTRY[CHOOSE i \in DOMAIN REGISTRY : REGISTRY[i].id = serverId]
    ELSE REGISTRY[1]

findCfg(serverId) ==
    IF \E i \in DOMAIN REGISTRY : REGISTRY[i].id = serverId
    THEN REGISTRY[CHOOSE i \in DOMAIN REGISTRY :
                      /\ REGISTRY[i].id = serverId
                      /\ \A j \in DOMAIN REGISTRY :
                            REGISTRY[j].id = serverId => i <= j]
    ELSE NotFound

Has(cfg, field) == field \in DOMAIN cfg

idleTtlOf(cfg) == IF Has(cfg, "idleTtlMs") THEN cfg.idleTtlMs ELSE DefaultIdleTtlMs

connectTimeoutOf(cfg) ==
    IF Has(cfg, "connectTimeoutMs") THEN cfg.connectTimeoutMs
    ELSE DefaultConnectTimeoutMs

----------------------------------------------------------------------------
(* Clients *)

NoEntry == [client |-> 0, lastUsed |-> 0, idleTtlMs |-> 0, child |-> "null"]

(* closedBy records which code path called client.close(): "" while it was  *)
(* never called, else "close", "gc" or "cleanup".                          *)
NoChannel == [id |-> "", kind |-> "none", state |-> "none", closedBy |-> ""]

NewClient(serverId, kind) ==
    [id |-> serverId, kind |-> kind, state |-> "connecting", closedBy |-> ""]

CloseCalled(c) == chan[c].closedBy # ""

(* client.close() is called on every client of cs; errors are swallowed *)
safeCloseClient(ch, cs, by) == [c \in Channels |->
    IF c \in cs /\ ch[c].closedBy = "" THEN [ch[c] EXCEPT !.closedBy = by] ELSE ch[c]]

NoResp == [kind |-> "none", isError |-> FALSE, msg |-> "", serverId |-> "", tool |-> ""]
NoRq == [name |-> "", serverId |-> "", tool |-> ""]

Init ==
    /\ now = 0
    /\ nextGc = GcIntervalMs
    /\ connected = [id \in ServerIds |-> NoEntry]
    /\ chan = [c \in Channels |-> NoChannel]
    /\ pc = [p \in Procs |-> "idle"]
    /\ rq = [p \in Procs |-> NoRq]
    /\ now0 = [p \in Procs |-> 0]
    /\ conn = [p \in Procs |-> 0]
    /\ made = [p \in Procs |-> {}]
    /\ started = [p \in Procs |-> 0]
    /\ deadline = [p \in Procs |-> 0]
    /\ resp = [p \in Procs |-> NoResp]

----------------------------------------------------------------------------
(* The cache *)

Cached(serverId) == connected[serverId] # NoEntry

MapDelete(m, ks) == [id \in ServerIds |-> IF id \in ks THEN NoEntry ELSE m[id]]

Connected(cfg, client, lastUsed) ==
    [client |-> client, lastUsed |-> lastUsed, idleTtlMs |-> idleTtlOf(cfg),
     child |-> "null"]

----------------------------------------------------------------------------
(* Responses of the request handler *)

ErrorResp(msg, serverId, tool) ==
    [kind |-> "error", isError |-> TRUE, msg |-> msg, serverId |-> serverId,
     tool |-> tool]

OkResp(kind, msg, serverId) ==
    [kind |-> kind, isError |-> FALSE, msg |-> msg, serverId |-> serverId,
     tool |-> ""]

(* The process is alive: it has not been terminated by the runtime. *)
Running == \A q \in Procs : pc[q] # "exited"

(* A returned response is delivered before anything else happens. *)
Delivered == \A q \in Procs : pc[q] # "done"

Throw_unflagged(p, r) ==
    /\ pc' = [pc EXCEPT ![p] = "done"]
    /\ resp' = [resp EXCEPT ![p] = [r EXCEPT !.isError = FALSE]]

(* An error thrown inside the handler reaches its catch block. *)
Throw(p, r) ==
    /\ pc' = [pc EXCEPT ![p] = "done"]
    /\ resp' = [resp EXCEPT ![p] = r]

----------------------------------------------------------------------------
(* ensureConnection *)

(* the instance marker a new Client gets *)
FreeSlots(ch) == {c \in Channels : ch[c] = NoChannel}
Fresh(ch) == CHOOSE c \in FreeSlots(ch) : \A d \in FreeSlots(ch) : c <= d

(* new Client(...) followed by `await client.connect(transport)` *)
StartConnect(p, serverId, kind) ==
    /\ chan' = [chan EXCEPT ![Fresh(chan)] = NewClient(serverId, kind)]
    /\ conn' = [conn EXCEPT ![p] = Fresh(chan)]
    /\ made' = [made EXCEPT ![p] = made[p] \cup {Fresh(chan)}]
    /\ pc' = [pc EXCEPT ![p] = "connecting"]
    /\ UNCHANGED <<connected, resp>>

(* A throw before any Client was created: findCfg, connectWs, assert. *)
EnsureThrow(p, r) ==
    /\ Throw(p, r)
    /\ UNCHANGED <<connected, chan, conn, made>>

connectStdio(p, cfg) ==
    IF ~Has(cfg, "command")
    THEN EnsureThrow(p, ErrorResp("command required", "", ""))
    ELSE StartConnect(p, cfg.id, "stdio")

connectWs(p, cfg) ==
    EnsureThrow(p, ErrorResp("WebSocket transport is not supported", "", ""))

connectHttp_sseFirst(p, cfg, forceSSE) ==
    IF ~Has(cfg, "url")
    THEN EnsureThrow(p, ErrorResp("url required for http/sse transport", "", ""))
    ELSE StartConnect(p, cfg.id, "sse")

connectHttp(p, cfg, forceSSE) ==
    IF ~Has(cfg, "url")
    THEN EnsureThrow(p, ErrorResp("url required for http/sse transport", "", ""))
    ELSE StartConnect(p, cfg.id, IF forceSSE THEN "sse" ELSE "streamable")

EnsureMiss(p, serverId) ==
    LET cfg == findCfg(serverId) IN
    IF cfg = NotFound
    THEN EnsureThrow(p, ErrorResp("Unknown serverId", serverId, ""))
    ELSE IF cfg.kind = "ws" THEN connectWs(p, cfg)
    ELSE IF cfg.kind = "http" THEN connectHttp(p, cfg, FALSE)
    ELSE IF cfg.kind = "sse" THEN connectHttp(p, cfg, TRUE)
    ELSE connectStdio(p, cfg)

EnsureHit_reconnect(p, serverId) == EnsureMiss(p, serverId)

(* Cache hit: touch the entry and return it. *)
EnsureHit(p, serverId) ==
    /\ connected' = [connected EXCEPT ![serverId].lastUsed = now]
    /\ conn' = [conn EXCEPT ![p] = connected[serverId].client]
    /\ pc' = [pc EXCEPT ![p] = "ensured"]
    /\ UNCHANGED <<chan, made, resp>>

(* ensureConnection up to its first suspension point *)
ensureConnection(p, serverId) ==
    /\ now0' = [now0 EXCEPT ![p] = now]
    /\ IF Cached(serverId) THEN EnsureHit(p, serverId) ELSE EnsureMiss(p, serverId)

(* connected.set(serverId, conn) with lastUsed: now, the value read on entry *)
InsertConn(p, serverId) ==
    connected' = [connected EXCEPT ![serverId] =
                     Connected(findCfg(serverId), conn[p], now0[p])]

(* client.connect resolved *)
ConnectOk(p) ==
    /\ Delivered
    /\ pc[p] = "connecting"
    /\ chan' = [chan EXCEPT ![conn[p]].state = "connected"]
    /\ InsertConn(p, rq[p].serverId)
    /\ pc' = [pc EXCEPT ![p] = "ensured"]
    /\ UNCHANGED <<now, nextGc, rq, now0, conn, made, started, deadline, resp>>

(* The catch block of ensureConnection closes `client` if it is set.  It is  *)
(* assigned only from the value a connect function returned, so on every    *)
(* path into the catch block it is still null: nothing is closed.          *)
CaughtClients(p) == {}

(* connectHttp: the Streamable HTTP attempt threw, fall back to SSE *)
FallBackToSse(p, failed) ==
    /\ chan' = [failed EXCEPT ![Fresh(failed)] = NewClient(rq[p].serverId, "sse")]
    /\ conn' = [conn EXCEPT ![p] = Fresh(failed)]
    /\ made' = [made EXCEPT ![p] = made[p] \cup {Fresh(failed)}]
    /\ UNCHANGED <<connected, pc, resp>>

ConnectFailed_caches(p, failed) ==
    /\ chan' = failed
    /\ connected' = [connected EXCEPT ![rq[p].serverId] =
                        Connected(findCfg(rq[p].serverId), conn[p], now0[p])]
    /\ Throw(p, ErrorResp("connect failed", "", ""))
    /\ UNCHANGED <<conn, made>>

(* the connect function threw: catch block of ensureConnection, rethrow *)
ConnectFailed(p, failed) ==
    /\ chan' = safeCloseClient(failed, CaughtClients(p), "cleanup")
    /\ Throw(p, ErrorResp("connect failed", "", ""))
    /\ UNCHANGED <<connected, conn, made>>

(* client.connect rejected *)
ConnectFail(p) ==
    /\ Delivered
    /\ pc[p] = "connecting"
    /\ LET failed == [chan EXCEPT ![conn[p]].state = "failed"] IN
       IF chan[conn[p]].kind = "streamable"
       THEN FallBackToSse(p, failed)
       ELSE ConnectFailed(p, failed)
    /\ UNCHANGED <<now, nextGc, rq, now0, started, deadline>>

----------------------------------------------------------------------------
(* The CallToolRequestSchema handler *)

(* Clients a handler that is still connecting may yet create (SSE fallback) *)
Reserve(q) ==
    IF pc[q] = "connecting" /\ chan[conn[q]].kind = "streamable" THEN 1 ELSE 0

Need(serverId) ==
    LET cfg == findCfg(serverId) IN
    IF Cached(serverId) \/ cfg = NotFound \/ cfg.kind = "ws" THEN 0
    ELSE IF cfg.kind \in {"http", "sse"}
         THEN IF ~Has(cfg, "url") THEN 0 ELSE IF cfg.kind = "http" THEN 2 ELSE 1
         ELSE IF ~Has(cfg, "command") THEN 0 ELSE 1

(* Handler slot 2 is taken only while slot 1 is busy, and only within the    *)
(* overlap horizon.                                                        *)
Receive(p, name, serverId, tool) ==
    /\ pc[p] = "idle"
    /\ Delivered
    /\ p = 2 => pc[1] # "idle"
    /\ p = 2 => now <= OverlapHorizon
    /\ rq' = [rq EXCEPT ![p] = [name |-> name, serverId |-> serverId, tool |-> tool]]

Discover(p, serverId) ==
    /\ Receive(p, "discover", serverId, "")
    /\ Need(serverId) + Reserve(3 - p) <= Cardinality(FreeSlots(chan))
    /\ ensureConnection(p, serverId)
    /\ UNCHANGED <<now, nextGc, started, deadline>>

Dispatch(p, serverId, tool) ==
    /\ Receive(p, "dispatch", serverId, tool)
    /\ Need(serverId) + Reserve(3 - p) <= Cardinality(FreeSlots(chan))
    /\ ensureConnection(p, serverId)
    /\ UNCHANGED <<now, nextGc, started, deadline>>

(* ensureConnection has returned: its locals are gone *)
Ensured(p) ==
    /\ now0' = [now0 EXCEPT ![p] = 0]
    /\ made' = [made EXCEPT ![p] = {}]

(* discover: conn.client.listTools() is sent *)
CallListTools(p) ==
    /\ Delivered
    /\ pc[p] = "ensured"
    /\ rq[p].name = "discover"
    /\ pc' = [pc EXCEPT ![p] = "listTools"]
    /\ Ensured(p)
    /\ UNCHANGED <<now, nextGc, connected, chan, rq, conn, started, deadline, resp>>

(* listTools resolved: conn.client.listResources() is sent *)
ListToolsOk(p) ==
    /\ Delivered
    /\ pc[p] = "listTools"
    /\ pc' = [pc EXCEPT ![p] = "listResources"]
    /\ UNCHANGED <<now, nextGc, connected, chan, rq, now0, conn, made,
                   started, deadline, resp>>

ListToolsFail(p) ==
    /\ Delivered
    /\ pc[p] = "listTools"
    /\ Throw(p, ErrorResp("listTools failed", "", ""))
    /\ UNCHANGED <<now, nextGc, connected, chan, rq, now0, conn, made,
                   started, deadline>>

ListResourcesOk(p) ==
    /\ Delivered
    /\ pc[p] = "listResources"
    /\ pc' = [pc EXCEPT ![p] = "done"]
    /\ resp' = [resp EXCEPT ![p] = OkResp("discovered", "tools+resources", rq[p].serverId)]
    /\ UNCHANGED <<now, nextGc, connected, chan, rq, now0, conn, made,
                   started, deadline>>

ListResourcesFail_throws(p) ==
    /\ Delivered
    /\ pc[p] = "listResources"
    /\ Throw(p, ErrorResp("listResources failed", "", ""))
    /\ UNCHANGED <<now, nextGc, connected, chan, rq, now0, conn, made,
                   started, deadline>>

ListResourcesFail(p) ==
    /\ Delivered
    /\ pc[p] = "listResources"
    /\ pc' = [pc EXCEPT ![p] = "done"]
    /\ resp' = [resp EXCEPT ![p] = OkResp("discovered", "tools+[]", rq[p].serverId)]
    /\ UNCHANGED <<now, nextGc, connected, chan, rq, now0, conn, made,
                   started, deadline>>

withTimeout_late(t, timeoutMs) == t + 2 * timeoutMs

(* withTimeout: the firing time of setTimeout(..., timeoutMs) *)
withTimeout(t, timeoutMs) == t + timeoutMs

(* dispatch: withTimeout(conn.client.callTool(...), 120_000, ...) *)
CallTool(p) ==
    /\ Delivered
    /\ pc[p] = "ensured"
    /\ rq[p].name = "dispatch"
    /\ pc' = [pc EXCEPT ![p] = "invoking"]
    /\ started' = [started EXCEPT ![p] = now]
    /\ deadline' = [deadline EXCEPT ![p] = withTimeout(now, DispatchTimeoutMs)]
    /\ Ensured(p)
    /\ UNCHANGED <<now, nextGc, connected, chan, rq, conn, resp>>

(* callTool resolved; a result carrying isError is returned like any other: *)
(* the handler copies result.content only.                                  *)
CallToolOk(p, toolFailed) ==
    /\ Delivered
    /\ pc[p] = "invoking"
    /\ pc' = [pc EXCEPT ![p] = "done"]
    /\ resp' = [resp EXCEPT ![p] =
                  OkResp("result", IF toolFailed THEN "backend error content"
                                   ELSE "backend content", "")]
    /\ UNCHANGED <<now, nextGc, connected, chan, rq, now0, conn, made,
                   started, deadline>>

CallToolFail(p) ==
    /\ Delivered
    /\ pc[p] = "invoking"
    /\ Throw(p, ErrorResp("callTool failed", "", ""))
    /\ UNCHANGED <<now, nextGc, connected, chan, rq, now0, conn, made,
                   started, deadline>>

DispatchTimeout_evicts(p) ==
    /\ Delivered
    /\ pc[p] = "invoking"
    /\ now >= deadline[p]
    /\ Throw(p, ErrorResp("timed out after 120 seconds", rq[p].serverId, rq[p].tool))
    /\ chan' = safeCloseClient(chan, {conn[p]}, "cleanup")
    /\ connected' = MapDelete(connected, {rq[p].serverId})
    /\ UNCHANGED <<now, nextGc, rq, now0, conn, made, started, deadline>>

(* the setTimeout of withTimeout fires and rejects the race *)
DispatchTimeout(p) ==
    /\ Delivered
    /\ pc[p] = "invoking"
    /\ now >= deadline[p]
    /\ Throw(p, ErrorResp("timed out after 120 seconds", rq[p].serverId, rq[p].tool))
    /\ UNCHANGED <<now, nextGc, connected, chan, rq, now0, conn, made,
                   started, deadline>>

Evict_noDelete(ids, by) ==
    /\ chan' = safeCloseClient(chan, {connected[id].client : id \in ids}, by)
    /\ connected' = connected

(* Teardown of cache entries: close the client, delete the key.  `child` is *)
(* null in every entry, so c.child?.kill is never reached.                 *)
Evict(ids, by) ==
    /\ chan' = safeCloseClient(chan, {connected[id].client : id \in ids}, by)
    /\ connected' = MapDelete(connected, ids)

Close_strict(p, serverId) ==
    /\ Receive(p, "close", serverId, "")
    /\ IF ~Cached(serverId)
       THEN /\ Throw(p, ErrorResp("not connected", serverId, ""))
            /\ UNCHANGED <<connected, chan>>
       ELSE /\ pc' = [pc EXCEPT ![p] = "done"]
            /\ Evict({serverId}, "close")
            /\ resp' = [resp EXCEPT ![p] = OkResp("closed", "", serverId)]
    /\ UNCHANGED <<now, nextGc, now0, conn, made, started, deadline>>

Close(p, serverId) ==
    /\ Receive(p, "close", serverId, "")
    /\ pc' = [pc EXCEPT ![p] = "done"]
    /\ IF ~Cached(serverId)
       THEN /\ resp' = [resp EXCEPT ![p] = OkResp("not connected", "", serverId)]
            /\ UNCHANGED <<connected, chan>>
       ELSE /\ Evict({serverId}, "close")
            /\ resp' = [resp EXCEPT ![p] = OkResp("closed", "", serverId)]
    /\ UNCHANGED <<now, nextGc, now0, conn, made, started, deadline>>

UnknownTool(p) ==
    /\ Receive(p, "other", "", "")
    /\ Throw(p, ErrorResp("Unknown tool", "", ""))
    /\ UNCHANGED <<now, nextGc, connected, chan, now0, conn, made, started, deadline>>

(* A client that failed to connect or on which close was called, and that   *)
(* neither the cache nor a running handler of ps refers to, is garbage.  A  *)
(* client that is connected and was never closed stays: its transport is    *)
(* live.                                                                    *)
Referenced(c, ps) ==
    \/ \E id \in ServerIds : connected[id].client = c
    \/ \E p \in ps : pc[p] # "idle" /\ (conn[p] = c \/ c \in made[p])

Garbage(c, ps) ==
    /\ chan[c].state = "failed" \/ chan[c].closedBy # ""
    /\ ~Referenced(c, ps)

Collect(ps) == [c \in Channels |-> IF Garbage(c, ps) THEN NoChannel ELSE chan[c]]

(* The response has been sent: the handler's locals are gone and the slot   *)
(* is free again.                                                          *)
Return(p) ==
    /\ pc[p] = "done"
    /\ pc' = [pc EXCEPT ![p] = "idle"]
    /\ rq' = [rq EXCEPT ![p] = NoRq]
    /\ now0' = [now0 EXCEPT ![p] = 0]
    /\ conn' = [conn EXCEPT ![p] = 0]
    /\ made' = [made EXCEPT ![p] = {}]
    /\ started' = [started EXCEPT ![p] = 0]
    /\ deadline' = [deadline EXCEPT ![p] = 0]
    /\ resp' = [resp EXCEPT ![p] = NoResp]
    /\ chan' = Collect(Procs \ {p})
    /\ UNCHANGED <<now, nextGc, connected>>

----------------------------------------------------------------------------
(* scheduleGc *)

IdleExpired_offByOne(t, c) == t - c.lastUsed >= c.idleTtlMs

IdleExpired(t, c) == t - c.lastUsed > c.idleTtlMs

Expired(t) == {id \in ServerIds : Cached(id) /\ IdleExpired(t, connected[id])}

Gc_closeOnly ==
    /\ Running
    /\ Delivered
    /\ now = nextGc
    /\ nextGc' = nextGc + GcIntervalMs
    /\ chan' = safeCloseClient(chan, {connected[id].client : id \in Expired(now)}, "gc")
    /\ UNCHANGED <<now, connected, pc, rq, now0, conn, made, started, deadline, resp>>

Gc ==
    /\ Running
    /\ Delivered
    /\ now = nextGc
    /\ nextGc' = nextGc + GcIntervalMs
    /\ Evict(Expired(now), "gc")
    /\ UNCHANGED <<now, pc, rq, now0, conn, made, started, deadline, resp>>

----------------------------------------------------------------------------
(* Unhandled rejections *)

(* safeCloseClient calls client.close() without awaiting the promise it     *)
(* returns and without attaching a handler to it: its try/catch sees only a *)
(* synchronous throw.  A close that hangs therefore delays nothing.  A      *)
(* close that rejects is an unhandled rejection; the gateway installs no    *)
(* handler for it, so what follows is the runtime's policy: a warning (no   *)
(* step of the gateway) or, as here, termination of the process, with which *)
(* the cache, the clients, the handlers and the sweeper's timer are gone.   *)
CloseRejected(c) ==
    /\ Running
    /\ CloseCalled(c)
    /\ pc' = [p \in Procs |-> "exited"]
    /\ connected' = [id \in ServerIds |-> NoEntry]
    /\ chan' = [d \in Channels |-> NoChannel]
    /\ rq' = [p \in Procs |-> NoRq]
    /\ now0' = [p \in Procs |-> 0]
    /\ conn' = [p \in Procs |-> 0]
    /\ made' = [p \in Procs |-> {}]
    /\ started' = [p \in Procs |-> 0]
    /\ deadline' = [p \in Procs |-> 0]
    /\ resp' = [p \in Procs |-> NoResp]
    /\ UNCHANGED <<now, nextGc>>

----------------------------------------------------------------------------
(* Passage of time *)

(* The clock advances; garbage is forgotten. *)
Tick ==
    /\ Running
    /\ Delivered
    /\ now + Quantum <= MaxTime
    /\ pc[2] # "idle" => now + Quantum <= OverlapHorizon
    /\ now + Quantum <= nextGc
    /\ \A p \in Procs : pc[p] = "invoking" => now + Quantum <= deadline[p]
    /\ now' = now + Quantum
    /\ chan' = Collect(Procs)
    /\ UNCHANGED <<nextGc, connected, pc, rq, now0, conn, made,
                   started, deadline, resp>>

Next ==
    \/ \E p \in Procs, id \in ServerIds : Discover(p, id)
    \/ \E p \in Procs, id \in ServerIds, t \in Tools : Dispatch(p, id, t)
    \/ \E p \in Procs, id \in ServerIds : Close(p, id)
    \/ \E p \in Procs : UnknownTool(p)
    \/ \E p \in Procs : ConnectOk(p)
    \/ \E p \in Procs : ConnectFail(p)
    \/ \E p \in Procs : CallListTools(p)
    \/ \E p \in Procs : ListToolsOk(p)
    \/ \E p \in Procs : ListToolsFail(p)
    \/ \E p \in Procs : ListResourcesOk(p)
    \/ \E p \in Procs : ListResourcesFail(p)
    \/ \E p \in Procs : CallTool(p)
    \/ \E p \in Procs, f \in BOOLEAN : CallToolOk(p, f)
    \/ \E p \in Procs : CallToolFail(p)
    \/ \E p \in Procs : DispatchTimeout(p)
    \/ \E p \in Procs : Return(p)
    \/ \E c \in Channels : CloseRejected(c)
    \/ Gc
    \/ Tick

Spec == Init /\ [][Next]_vars

----------------------------------------------------------------------------
(* Vocabulary of the properties *)

(* Active Connection: a client whose connect succeeded and on which close   *)
(* was never called.                                                       *)
Active(c) == chan[c].state = "connected" /\ ~CloseCalled(c)

ActiveFor(id) == {c \in Channels : chan[c].id = id /\ Active(c)}

(* the handler's listing or invoke on the client it got is in flight *)
InFlight(p) == pc[p] \in {"listTools", "listResources", "invoking"}

(* a step of the sweeper *)
GcStep == nextGc' # nextGc

(* handler p receives a discover or dispatch for id, i.e. calls ensureConnection *)
EnsureCall(p, id) ==
    /\ pc[p] = "idle"
    /\ pc'[p] # "idle"
    /\ rq'[p].name \in {"discover", "dispatch"}
    /\ rq'[p].serverId = id

(* handler p receives close(id) *)
CloseCall(p, id) ==
    /\ pc[p] = "idle"
    /\ pc'[p] # "idle"
    /\ rq'[p].name = "close"
    /\ rq'[p].serverId = id

----------------------------------------------------------------------------
(* C1: in every reachable state at most one Active Connection (a connected, *)
(* not yet closed client) exists for each backend id.                      *)
C1_AtMostOneActive ==
    \A id \in ServerIds : Cardinality(ActiveFor(id)) <= 1

(* C2: a sweeper run never removes or closes a cache entry while a discover *)
(* or dispatch that obtained that entry from ensureConnection still has its *)
(* listing or invoke in flight.                                            *)
C2_SweeperSparesInFlight ==
    [][GcStep =>
         \A p \in Procs :
            (InFlight(p) /\ connected[rq[p].serverId].client = conn[p])
               => /\ connected'[rq[p].serverId] = connected[rq[p].serverId]
                  /\ chan'[conn[p]].closedBy = ""]_vars

(* C3: a sweeper run at time now removes a cached connection and closes its *)
(* client if now - lastUsed > idleTtlMs, and leaves it cached and open if   *)
(* now - lastUsed <= idleTtlMs.                                            *)
C3_SweepEvictsExactlyIdle ==
    [][GcStep =>
         \A id \in ServerIds :
            connected[id].client # 0 =>
               IF now - connected[id].lastUsed > connected[id].idleTtlMs
               THEN /\ connected'[id] = NoEntry
                    /\ chan'[connected[id].client].closedBy # ""
               ELSE /\ connected'[id] = connected[id]
                    /\ chan'[connected[id].client].closedBy = ""]_vars

(* the sweeper has just run: it closed a client and kept an entry that was  *)
(* idle for exactly its idle-timeout                                       *)
C3_Witness ==
    /\ nextGc = now + GcIntervalMs
    /\ \E c \in Channels : chan[c].closedBy = "gc"
    /\ \E id \in ServerIds :
          /\ Cached(id)
          /\ now - connected[id].lastUsed = connected[id].idleTtlMs
          /\ chan[connected[id].client].closedBy = ""

(* C4: an ensureConnection whose connect has not completed fails once the   *)
(* recipe's connect-timeout (or the default) has elapsed: no handler is     *)
(* still connecting after that time.                                       *)
C4_ConnectBounded ==
    \A p \in Procs :
       pc[p] = "connecting" =>
          now - now0[p] <= connectTimeoutOf(findCfg(rq[p].serverId))

(* C5: a dispatch whose invoke does not return fails with the timeout error *)
(* naming the tool and the backend no later than 120 seconds after the      *)
(* invoke was started.                                                     *)
C5_DispatchTimeoutBounded ==
    \A p \in Procs :
       /\ pc[p] = "invoking" => now - started[p] <= DispatchTimeoutMs
       /\ (pc[p] = "done" /\ resp[p].msg = "timed out after 120 seconds") =>
             /\ resp[p].isError
             /\ resp[p].serverId = rq[p].serverId
             /\ resp[p].tool = rq[p].tool
             /\ now - started[p] <= DispatchTimeoutMs

(* the caller got the timeout error exactly 120 seconds after the invoke *)
C5_Witness ==
    \E p \in Procs :
       /\ pc[p] = "done"
       /\ rq[p].name = "dispatch"
       /\ resp[p].msg = "timed out after 120 seconds"
       /\ now - started[p] = DispatchTimeoutMs

(* C6: when ensureConnection fails in the connect step, every client created *)
(* during that attempt has been closed before the error is returned.       *)
C6_FailedConnectTornDown ==
    \A p \in Procs :
       (pc[p] = "done" /\ resp[p].msg = "connect failed") =>
          \A c \in made[p] : CloseCalled(c)

(* C7: an ensureConnection that misses performs exactly one successful      *)
(* connect and inserts exactly one entry; one that finds the id cached      *)
(* returns the cached client, creates and connects nothing, and changes     *)
(* only that entry's lastUsed.                                             *)
C7_OneConnectThenReuse ==
    [][\A p \in Procs :
         /\ (pc[p] = "connecting" /\ pc'[p] = "ensured") =>
               /\ Cardinality({c \in made[p] : chan'[c].state = "connected"}) = 1
               /\ conn[p] \in made[p]
               /\ connected'[rq[p].serverId].client = conn[p]
               /\ \A j \in ServerIds \ {rq[p].serverId} : connected'[j] = connected[j]
         /\ \A id \in ServerIds :
               (EnsureCall(p, id) /\ connected[id].client # 0) =>
                  /\ pc'[p] = "ensured"
                  /\ conn'[p] = connected[id].client
                  /\ chan' = chan
                  /\ connected' = [connected EXCEPT ![id].lastUsed = now]]_vars

(* a later call found the entry cached and got the cached client *)
C7_Witness ==
    \E p \in Procs :
       /\ pc[p] = "ensured"
       /\ made[p] = {}
       /\ Cached(rq[p].serverId)
       /\ conn[p] = connected[rq[p].serverId].client
       /\ chan[conn[p]].state = "connected"
       /\ connected[rq[p].serverId].lastUsed = now
       /\ now > 0

(* ids whose recipe lets the connector start a connect *)
Connectable ==
    {id \in RegistryIds :
        LET cfg == REGISTRY[CHOOSE i \in DOMAIN REGISTRY : REGISTRY[i].id = id] IN
        /\ cfg.kind # "ws"
        /\ cfg.kind \in {"http", "sse"} => "url" \in DOMAIN cfg
        /\ cfg.kind \notin {"http", "sse"} => "command" \in DOMAIN cfg}

(* C8: when close(id) returns the cache has no entry for id and the cached  *)
(* client has been closed; a following ensureConnection(id) starts a new    *)
(* connect on a fresh client, and a client put into the cache is never one  *)
(* that was closed.                                                        *)
C8_CloseThenFresh ==
    [][\A p \in Procs, id \in ServerIds :
         /\ (CloseCall(p, id) /\ connected[id].client # 0) =>
               /\ pc'[p] = "done"
               /\ resp'[p].kind = "closed"
               /\ connected'[id] = NoEntry
               /\ chan'[connected[id].client].closedBy = "close"
         /\ (EnsureCall(p, id) /\ connected[id].client = 0 /\ id \in Connectable) =>
               /\ pc'[p] = "connecting"
               /\ chan[conn'[p]] = NoChannel
               /\ chan'[conn'[p]] = NewClient(id, chan'[conn'[p]].kind)
         /\ (connected'[id].client # 0 /\ connected'[id].client # connected[id].client) =>
               chan'[connected'[id].client].closedBy = ""]_vars

(* id was closed by close and is cached again with a later client *)
C8_Witness ==
    \E id \in ServerIds, c1, c2 \in Channels :
       /\ chan[c1].id = id
       /\ chan[c1].closedBy = "close"
       /\ connected[id].client = c2
       /\ c1 # c2
       /\ chan[c2].state = "connected"
       /\ chan[c2].closedBy = ""

(* C9: ensureConnection for an id absent from the registry fails with the   *)
(* unknown-server error, creates and connects no client and leaves the      *)
(* cache exactly as it was.                                                *)
C9_UnknownBackend ==
    [][\A p \in Procs, id \in ServerIds \ RegistryIds :
         EnsureCall(p, id) =>
            /\ pc'[p] = "done"
            /\ resp'[p].isError
            /\ resp'[p].msg = "Unknown serverId"
            /\ resp'[p].serverId = id
            /\ connected' = connected
            /\ chan' = chan]_vars

(* the unknown-server error was returned while another id was cached *)
C9_Witness ==
    \E p \in Procs :
       /\ pc[p] = "done"
       /\ rq[p].serverId \notin RegistryIds
       /\ resp[p].msg = "Unknown serverId"
       /\ \E id \in ServerIds : Cached(id)

ConnectErrors ==
    {"command required", "url required for http/sse transport",
     "WebSocket transport is not supported", "connect failed"}

(* C10: a failing connect step inserts no entry, and every cache entry      *)
(* holds a client of its own id whose connect completed successfully.       *)
C10_NoHalfInitialized ==
    /\ [](\A id \in ServerIds :
             connected[id].client # 0 =>
                /\ chan[connected[id].client].state = "connected"
                /\ chan[connected[id].client].id = id)
    /\ [][\A p \in Procs :
            (pc[p] # "done" /\ pc'[p] = "done" /\ resp'[p].msg \in ConnectErrors) =>
               connected' = connected]_vars

(* a transport connect failure was returned and the id is not cached *)
C10_Witness ==
    \E p \in Procs :
       /\ pc[p] = "done"
       /\ resp[p].msg = "connect failed"
       /\ \E c \in made[p] : chan[c].state = "failed"
       /\ ~Cached(rq[p].serverId)

(* C11: the step in which a dispatch fails with the timeout error changes   *)
(* neither the cache nor any client, so the entry and its client stay as    *)
(* they were; an ensureConnection that finds the id cached returns that     *)
(* same client and creates nothing.                                        *)
C11_TimeoutKeepsEntry ==
    [][\A p \in Procs :
         /\ (pc[p] = "invoking" /\ pc'[p] = "done"
                /\ resp'[p].msg = "timed out after 120 seconds") =>
               /\ connected' = connected
               /\ chan' = chan
         /\ \A id \in ServerIds :
               (EnsureCall(p, id) /\ connected[id].client # 0) =>
                  /\ pc'[p] = "ensured"
                  /\ conn'[p] = connected[id].client
                  /\ connected'[id].client = connected[id].client
                  /\ made'[p] = {}
                  /\ chan' = chan]_vars

(* a dispatch timed out and its client is still the cached, open one *)
C11_Witness ==
    \E p \in Procs :
       /\ pc[p] = "done"
       /\ resp[p].msg = "timed out after 120 seconds"
       /\ connected[rq[p].serverId].client = conn[p]
       /\ Active(conn[p])

(* C12: close(id) never answers with an error and leaves no entry for id,   *)
(* touching no other entry; when id has no entry it answers "not connected" *)
(* and changes neither the cache nor any client.  Hence a second close(id)  *)
(* in a row finds no entry, reports "not connected", closes nothing and     *)
(* leaves the cache as the first left it.                                  *)
C12_CloseIdempotent ==
    [][\A p \in Procs, id \in ServerIds :
         CloseCall(p, id) =>
            /\ pc'[p] = "done"
            /\ ~resp'[p].isError
            /\ connected'[id] = NoEntry
            /\ \A j \in ServerIds \ {id} : connected'[j] = connected[j]
            /\ connected[id].client = 0 =>
                  /\ resp'[p].kind = "not connected"
                  /\ resp'[p].serverId = id
                  /\ connected' = connected
                  /\ chan' = chan]_vars

(* close(id) answered "not connected" after an earlier close(id) had closed *)
(* the client of id                                                        *)
C12_Witness ==
    \E p \in Procs, c \in Channels :
       /\ pc[p] = "done"
       /\ rq[p].name = "close"
       /\ resp[p].kind = "not connected"
       /\ ~resp[p].isError
       /\ chan[c].id = rq[p].serverId
       /\ chan[c].closedBy = "close"
       /\ ~Cached(rq[p].serverId)

ErrorMessages ==
    ConnectErrors \cup {"Unknown serverId", "Unknown tool", "listTools failed",
                        "callTool failed", "timed out after 120 seconds"}

(* C13: a handler leaves only by returning a response; an unknown tool      *)
(* name, an ensureConnection that cannot connect (unknown id, unusable      *)
(* recipe, rejected connect), a failed tool listing, a failed invoke and a  *)
(* dispatch timeout each end the call with a response flagged isError that  *)
(* carries the error message, and the handler slot serves again afterwards. *)
C13_ErrorsBecomeResponses ==
    [][\A p \in Procs :
         /\ (pc[p] # "idle" /\ pc'[p] = "idle") => pc[p] = "done"
         /\ (pc[p] # "done" /\ pc'[p] = "done") =>
               /\ resp'[p] # NoResp
               /\ resp'[p].isError <=> resp'[p].kind = "error"
               /\ resp'[p].isError => resp'[p].msg \in ErrorMessages
         /\ (pc[p] = "idle" /\ pc'[p] # "idle" /\ rq'[p].name = "other") =>
               /\ pc'[p] = "done"
               /\ resp'[p].isError
               /\ resp'[p].msg = "Unknown tool"
         /\ \A id \in ServerIds \ Connectable :
               EnsureCall(p, id) =>
                  /\ pc'[p] = "done"
                  /\ resp'[p].isError
         /\ (pc[p] = "connecting" /\ pc'[p] \notin {"connecting", "ensured", "exited"}) =>
               /\ pc'[p] = "done"
               /\ resp'[p].isError
               /\ resp'[p].msg = "connect failed"
         /\ (pc[p] = "listTools" /\ pc'[p] \notin {"listTools", "listResources", "exited"}) =>
               /\ pc'[p] = "done"
               /\ resp'[p].isError
               /\ resp'[p].msg = "listTools failed"
         /\ (pc[p] = "invoking" /\ pc'[p] \notin {"invoking", "exited"}) =>
               /\ pc'[p] = "done"
               /\ resp'[p].kind # "result" =>
                     /\ resp'[p].isError
                     /\ resp'[p].msg \in {"callTool failed",
                                           "timed out after 120 seconds"}
         /\ (pc[p] = "done" /\ pc'[p] # "exited") =>
               /\ pc'[p] = "idle"
               /\ resp'[p] = NoResp]_vars

(* one call was answered with an error response while the gateway is still  *)
(* serving another call                                                    *)
C13_Witness ==
    \E p, q \in Procs :
       /\ p # q
       /\ pc[p] = "done"
       /\ resp[p].isError
       /\ resp[p].msg \in ErrorMessages
       /\ InFlight(q)

(* the listing or invoke of some handler still uses the entry of id *)
InUse(id) == \E p \in Procs : pc[p] # "idle" /\ rq[p].serverId = id

(* C14: once more than its idle-timeout has elapsed since an entry was last *)
(* used, and no call is using it, the cache holds no entry for that backend.*)
C14_GoneOnceIdle ==
    \A id \in ServerIds :
       (Cached(id) /\ ~InUse(id)) =>
          now - connected[id].lastUsed <= connected[id].idleTtlMs

(* C15: a close of a client that fails or hangs, in close(id) or in a       *)
(* sweeper run, does not keep the entry in the cache, does not keep the     *)
(* sweeper run from evicting every other expired entry, and leaves the      *)
(* process and with it the sweeper's timer running.                        *)
C15_TeardownFailureHarmless ==
    /\ [](Running)
    /\ [][\A id \in ServerIds :
            /\ (\E p \in Procs : CloseCall(p, id)) => connected'[id] = NoEntry
            /\ (GcStep /\ Cached(id) /\ IdleExpired(now, connected[id])) =>
                  connected'[id] = NoEntry]_vars

(* C16: the entry that ensureConnection inserts when its connect has        *)
(* succeeded carries the time of the insertion as lastUsed.                *)
C16_InsertedWithCurrentTime ==
    [][\A p \in Procs :
         (pc[p] = "connecting" /\ pc'[p] = "ensured") =>
            connected'[rq[p].serverId].lastUsed = now']_vars

(* C17: a response that carries the content of a backend result reporting   *)
(* a tool-level failure is flagged as an error.                            *)
C17_ToolFailureSurfaced ==
    \A p \in Procs :
       (pc[p] = "done" /\ resp[p].msg = "backend error content") =>
          resp[p].isError

(* the clients that the connect attempt of handler p has created so far *)
Attempting(p) == pc[p] \in {"connecting", "ensured", "done"} /\ made[p] # {}

(* C18: a connect attempt creates at most two clients.  For a recipe of     *)
(* kind sse it creates one SSE client only.  For kind http it creates a     *)
(* Streamable HTTP client first, and an SSE client only once that one has   *)
(* failed; when the SSE client fails, whether first or as fallback, the     *)
(* connect fails without a further attempt.                                *)
C18_StreamableThenSseOnce ==
    /\ [](\A p \in Procs :
             Attempting(p) =>
                LET cfg == findCfg(rq[p].serverId) IN
                /\ Cardinality(made[p]) <= 2
                /\ conn[p] \in made[p]
                /\ cfg.kind = "sse" =>
                      /\ made[p] = {conn[p]}
                      /\ chan[conn[p]].kind = "sse"
                /\ cfg.kind = "http" =>
                      \/ /\ made[p] = {conn[p]}
                         /\ chan[conn[p]].kind = "streamable"
                      \/ /\ chan[conn[p]].kind = "sse"
                         /\ \E c \in made[p] \ {conn[p]} :
                               /\ made[p] = {c, conn[p]}
                               /\ chan[c].kind = "streamable"
                               /\ chan[c].state = "failed")
    /\ [][\A p \in Procs :
            (/\ pc[p] = "connecting"
             /\ chan[conn[p]].kind = "sse"
             /\ chan'[conn[p]].state = "failed") =>
               /\ pc'[p] = "done"
               /\ resp'[p].msg = "connect failed"
               /\ made'[p] = made[p]]_vars

(* an http recipe was connected through the SSE fallback after its          *)
(* Streamable HTTP client had failed                                       *)
C18_Witness ==
    \E p \in Procs :
       /\ pc[p] = "ensured"
       /\ findCfg(rq[p].serverId).kind = "http"
       /\ Cardinality(made[p]) = 2
       /\ chan[conn[p]].kind = "sse"
       /\ chan[conn[p]].state = "connected"
       /\ \E c \in made[p] : chan[c].kind = "streamable" /\ chan[c].state = "failed"

(* C19: a discover whose resource listing has been sent ends, whether that  *)
(* listing succeeds or fails, in a successful response for its backend that *)
(* carries the tools; a discover whose tool listing fails ends in an error  *)
(* response.  Neither step changes the cache or any client.                *)
C19_ResourceListingDegrades ==
    [][\A p \in Procs :
         /\ (pc[p] = "listResources" /\ pc'[p] \notin {"listResources", "exited"}) =>
               /\ pc'[p] = "done"
               /\ ~resp'[p].isError
               /\ resp'[p].kind = "discovered"
               /\ resp'[p].msg \in {"tools+resources", "tools+[]"}
               /\ resp'[p].serverId = rq[p].serverId
               /\ connected' = connected
               /\ chan' = chan
         /\ (pc[p] = "listTools" /\ pc'[p] = "done") =>
               /\ resp'[p].isError
               /\ resp'[p].msg = "listTools failed"
               /\ connected' = connected
               /\ chan' = chan]_vars

(* discover answered with the tools and an empty resource list, and its     *)
(* entry is still cached                                                   *)
C19_Witness ==
    \E p \in Procs :
       /\ pc[p] = "done"
       /\ rq[p].name = "discover"
       /\ resp[p].msg = "tools+[]"
       /\ ~resp[p].isError
       /\ connected[rq[p].serverId].client = conn[p]
       /\ Active(conn[p])

(* C20: every client whose connect succeeded and on which close was never   *)
(* called is the client of a cache entry, hence within reach of close and   *)
(* of the sweeper.                                                         *)
C20_NoOrphanClient ==
    \A c \in Channels :
       Active(c) => \E id \in ServerIds : connected[id].client = c

(* C21: no cache entry holds a client on which close was called: a step     *)
(* that calls close on a client (close(id), the sweeper) leaves no entry    *)
(* holding it, and the client an ensureConnection takes from the cache has  *)
(* never been closed.                                                      *)
C21_NoClosedClientCached ==
    /\ [](\A id \in ServerIds :
             Cached(id) => ~CloseCalled(connected[id].client))
    /\ [][/\ \A c \in Channels :
               (chan[c].closedBy = "" /\ chan'[c].closedBy # "") =>
                  /\ \E id \in ServerIds : connected[id].client = c
                  /\ \A id \in ServerIds : connected'[id].client # c
           /\ \A p \in Procs, id \in ServerIds :
               (EnsureCall(p, id) /\ connected[id].client # 0) =>
                  /\ conn'[p] = connected[id].client
                  /\ chan'[conn'[p]].closedBy = ""]_vars

(* ensureConnection took an open client from the cache while an earlier     *)
(* client of the same id, closed by the gateway, still exists               *)
C21_Witness ==
    \E p \in Procs, c \in Channels :
       /\ pc[p] = "ensured"
       /\ made[p] = {}
       /\ connected[rq[p].serverId].client = conn[p]
       /\ Active(conn[p])
       /\ c # conn[p]
       /\ chan[c].id = rq[p].serverId
       /\ CloseCalled(c)

====
